---- MODULE Spec2Model ----
(***************************************************************************)
(* Model of origin_to.py: the "Set Origin to Bottom/Top" add-on.           *)
(*                                                                         *)
(* Coordinates are counted in halves of a scene unit, so that the integer  *)
(* 5 stands for 2.5.  Every vertex and every translation of the scenes     *)
(* below lies on whole units (even numbers), so the sum of two world-space *)
(* extrema is even and (min + max) / 2 is exact, as it is in floating      *)
(* point for such values.  WorldOnWholeUnits states this and is checked.   *)
(***************************************************************************)
EXTENDS Integers, Sequences, FiniteSets, TLC

VARIABLES
    objects,            \* the host's scene: object id -> object data
    selected_objects,   \* context.selected_objects, in selection order
    cursor,             \* context.scene.cursor.location
    active,             \* context.view_layer.objects.active (NoObject = None)
    pc,                 \* position of the running operator ("idle" = none runs)
    use_bottom,         \* TRUE in SetOriginBottomOperator, FALSE in ...Top...
    original_cursor,    \* execute's local
    original_active,    \* execute's local
    idx,                \* position of the for loop in selected_objects
    origin_point,       \* execute's local: None or Some(vector)
    result,             \* what the host got back from the last invocation
    invocations,        \* number of invocations started
    pre_objects,        \* history: the scene when the invocation started
    pre_cursor,         \* history: the cursor when the invocation started
    pre_active,         \* history: the active object when it started
    calc_calls,         \* history: calculator calls of this invocation
    prev_calls,         \* history: calculator calls of the invocation before
    origin_set_calls,   \* history: host relocation calls of this invocation
    host_failed         \* history: the host primitive raised in this invocation

vars == <<objects, selected_objects, cursor, active, pc, use_bottom,
          original_cursor, original_active, idx, origin_point, result,
          invocations, pre_objects, pre_cursor, pre_active, calc_calls,
          prev_calls, origin_set_calls, host_failed>>

(***************************************************************************)
(* Bounds of the model.                                                    *)
(***************************************************************************)
MaxSel == 3           \* longest selection
MaxInvocations == 2   \* invocations in one behaviour
MaxVerts == 2         \* longest vertex list of the calculator's input space

(***************************************************************************)
(* Python values.                                                          *)
(***************************************************************************)
None == <<>>
Some(v) == <<v>>
NoObject == 0

Range(s) == {s[i] : i \in DOMAIN s}

(***************************************************************************)
(* mathutils: vectors are <<x, y, z>>, a world matrix is its 3x3 linear    *)
(* part (a tuple of rows) together with its translation column.            *)
(***************************************************************************)
Dot(a, b) == a[1] * b[1] + a[2] * b[2] + a[3] * b[3]
MatVec(m, v) == <<Dot(m[1], v), Dot(m[2], v), Dot(m[3], v)>>
VecAdd(a, b) == <<a[1] + b[1], a[2] + b[2], a[3] + b[3]>>
VecSub(a, b) == <<a[1] - b[1], a[2] - b[2], a[3] - b[3]>>
Transpose(m) == <<<<m[1][1], m[2][1], m[3][1]>>,
                  <<m[1][2], m[2][2], m[3][2]>>,
                  <<m[1][3], m[2][3], m[3][3]>>>>

Identity == <<<<1, 0, 0>>, <<0, 1, 0>>, <<0, 0, 1>>>>
RotX90   == <<<<1, 0, 0>>, <<0, 0, -1>>, <<0, 1, 0>>>>
RotZ90   == <<<<0, -1, 0>>, <<1, 0, 0>>, <<0, 0, 1>>>>
MirrorZ  == <<<<1, 0, 0>>, <<0, 1, 0>>, <<0, 0, -1>>>>
Scale2   == <<<<2, 0, 0>>, <<0, 2, 0>>, <<0, 0, 2>>>>

\* obj.matrix_world @ v.co
matrix_world(ob, co) == VecAdd(MatVec(ob.mat, co), ob.loc)

\* obj.evaluated_get(depsgraph).data.vertices: the geometry after the
\* object's modifiers; a MASK modifier here hides every vertex.
evaluated_get(ob) == IF ob.modifier = "MASK" THEN <<>> ELSE ob.verts

(***************************************************************************)
(* Python's min(...) and max(...) over a generator: a left-to-right scan   *)
(* that keeps the first extremum found.                                    *)
(***************************************************************************)
RECURSIVE MinScan(_, _, _)
MinScan(s, i, best) ==
    IF i > Len(s) THEN best
    ELSE MinScan(s, i + 1, IF s[i] < best THEN s[i] ELSE best)

RECURSIVE MaxScan(_, _, _)
MaxScan(s, i, best) ==
    IF i > Len(s) THEN best
    ELSE MaxScan(s, i + 1, IF s[i] > best THEN s[i] ELSE best)

min(s) == MinScan(s, 2, s[1])
max(s) == MaxScan(s, 2, s[1])

Axis(vs, k) == [i \in DOMAIN vs |-> vs[i][k]]

(***************************************************************************)
(* SetOriginBase.calculate_origin_point                                    *)
(***************************************************************************)
WorldVerts(ob) ==
    LET mesh == evaluated_get(ob)
    IN  [i \in DOMAIN mesh |-> matrix_world(ob, mesh[i])]

\* Variant: the bottom/top choice inverted (max_z if use_bottom else min_z).
calculate_origin_point_inverted(ob, bottom) ==
    LET world_verts == WorldVerts(ob)
    IN  IF Len(world_verts) = 0
        THEN None
        ELSE Some(<<(min(Axis(world_verts, 1)) + max(Axis(world_verts, 1))) \div 2,
                    (min(Axis(world_verts, 2)) + max(Axis(world_verts, 2))) \div 2,
                    IF bottom THEN max(Axis(world_verts, 3))
                              ELSE min(Axis(world_verts, 3))>>)

\* Variant: the vertices taken in local space (v.co without matrix_world @).
calculate_origin_point_local(ob, bottom) ==
    LET local_verts == evaluated_get(ob)
    IN  IF Len(local_verts) = 0
        THEN None
        ELSE Some(<<(min(Axis(local_verts, 1)) + max(Axis(local_verts, 1))) \div 2,
                    (min(Axis(local_verts, 2)) + max(Axis(local_verts, 2))) \div 2,
                    IF bottom THEN min(Axis(local_verts, 3))
                              ELSE max(Axis(local_verts, 3))>>)

calculate_origin_point(ob, bottom) ==
    LET world_verts == WorldVerts(ob)
    IN  IF Len(world_verts) = 0
        THEN None
        ELSE LET min_x == min(Axis(world_verts, 1))
                 max_x == max(Axis(world_verts, 1))
                 min_y == min(Axis(world_verts, 2))
                 max_y == max(Axis(world_verts, 2))
                 min_z == min(Axis(world_verts, 3))
                 max_z == max(Axis(world_verts, 3))
                 center_x == (min_x + max_x) \div 2
                 center_y == (min_y + max_y) \div 2
                 target_z == IF bottom THEN min_z ELSE max_z
             IN  Some(<<center_x, center_y, target_z>>)

\* Variant: a vector whose truth is that of its components (all zero = false).
IsFalsyByValue(p) == IF p = None THEN TRUE ELSE p[1] = <<0, 0, 0>>

(***************************************************************************)
(* `not origin_point': None is false; a mathutils Vector defines no        *)
(* __bool__, so its truth is that of its length, never of its components.  *)
(***************************************************************************)
IsFalsy(p) == IF p = None THEN TRUE ELSE Len(p[1]) = 0

(***************************************************************************)
(* bpy.ops.object.origin_set(type='ORIGIN_CURSOR'), the host's operator.   *)
(* It takes no object argument: it runs over the context's selected        *)
(* objects and, for each one that carries object data, shifts the data by  *)
(* the cursor's position in the object's local space and moves the         *)
(* object's location to compensate, which puts the origin on the cursor    *)
(* and leaves the world-space geometry where it was.  An object without    *)
(* data (an empty) is passed over.  The scenes below use rotations and     *)
(* mirrors only, whose inverse is the transpose.                           *)
(***************************************************************************)
HasObjectData(ob) == ob.type \in {"MESH", "CURVE"}

RelocateOrigin(ob, cur) ==
    LET cent == MatVec(Transpose(ob.mat), VecSub(cur, ob.loc))
    IN  [ob EXCEPT !.verts = [i \in DOMAIN ob.verts |-> VecSub(ob.verts[i], cent)],
                   !.loc = VecAdd(ob.loc, MatVec(ob.mat, cent))]

origin_set(objs, sel, cur) ==
    [o \in DOMAIN objs |->
        IF o \in Range(sel) /\ HasObjectData(objs[o])
        THEN RelocateOrigin(objs[o], cur)
        ELSE objs[o]]

\* The origin of an object is the translation of its world matrix.
Origin(ob) == ob.loc

(***************************************************************************)
(* The scene of the batch specifications: two meshes with vertices, a mesh *)
(* whose evaluated geometry has no vertex, a curve and an empty.           *)
(***************************************************************************)
Obj(t, vs, m, l, md) == [type |-> t, verts |-> vs, mat |-> m, loc |-> l, modifier |-> md]

Scene ==
    << Obj("MESH", << <<0, 0, 0>>, <<2, 0, 2>>, <<2, 2, 2>> >>, Identity, <<4, 6, 0>>, "NONE"),
       Obj("MESH", << <<-4, -2, 0>>, <<0, 2, -4>> >>, RotX90, <<2, -2, 2>>, "NONE"),
       Obj("MESH", << <<0, 0, 0>>, <<2, 2, 2>> >>, MirrorZ, <<0, 4, 0>>, "MASK"),
       Obj("CURVE", << >>, Identity, <<2, 2, 2>>, "NONE"),
       Obj("EMPTY", << >>, Identity, <<0, -2, 0>>, "NONE") >>

Cursors == { <<0, 0, 0>>, <<1, -3, 2>> }

\* The selections: sequences of distinct objects of the scene.
Selections ==
    UNION { { s \in [1..n -> DOMAIN Scene] :
                \A i, j \in 1..n : i # j => s[i] # s[j] } : n \in 0..MaxSel }

Start(sel, cur, act, n) ==
    /\ objects = Scene
    /\ selected_objects = sel
    /\ cursor = cur
    /\ active = act
    /\ pc = "idle"
    /\ use_bottom = TRUE
    /\ original_cursor = cur
    /\ original_active = act
    /\ idx = 1
    /\ origin_point = None
    /\ result = "NONE"
    /\ invocations = n
    /\ pre_objects = Scene
    /\ pre_cursor = cur
    /\ pre_active = act
    /\ calc_calls = <<>>
    /\ prev_calls = <<>>
    /\ origin_set_calls = <<>>
    /\ host_failed = FALSE

Init ==
    \E sel \in Selections, cur \in Cursors, act \in {NoObject} \cup DOMAIN Scene :
        Start(sel, cur, act, 0)

scene_vars == <<objects, selected_objects, cursor, active>>
local_vars == <<use_bottom, original_cursor, original_active, idx, origin_point>>
start_vars == <<invocations, pre_objects, pre_cursor, pre_active, prev_calls>>

(***************************************************************************)
(* execute, lines 65-69 and 97-101: the snapshot of the ambient state.     *)
(***************************************************************************)
Begin(bottom) ==
    /\ pc = "idle"
    /\ invocations < MaxInvocations
    /\ use_bottom' = bottom
    /\ original_cursor' = cursor
    /\ original_active' = active
    /\ idx' = 1
    /\ origin_point' = None
    /\ pc' = "for"
    /\ result' = "RUNNING"
    /\ invocations' = invocations + 1
    /\ pre_objects' = objects
    /\ pre_cursor' = cursor
    /\ pre_active' = active
    /\ prev_calls' = calc_calls
    /\ calc_calls' = <<>>
    /\ origin_set_calls' = <<>>
    /\ host_failed' = FALSE
    /\ UNCHANGED scene_vars

ExecuteBottom == Begin(TRUE)
ExecuteTop == Begin(FALSE)

\* Variant: `break' in place of `continue' on a non-mesh object.
SkipNonMeshBreak ==
    /\ pc = "for"
    /\ idx <= Len(selected_objects)
    /\ objects[selected_objects[idx]].type # "MESH"
    /\ idx' = Len(selected_objects) + 1
    /\ UNCHANGED <<scene_vars, pc, use_bottom, original_cursor, original_active,
                   origin_point, result, start_vars, calc_calls,
                   origin_set_calls, host_failed>>

\* for obj in context.selected_objects: if obj.type != 'MESH': continue
SkipNonMesh ==
    /\ pc = "for"
    /\ idx <= Len(selected_objects)
    /\ objects[selected_objects[idx]].type # "MESH"
    /\ idx' = idx + 1
    /\ UNCHANGED <<scene_vars, pc, use_bottom, original_cursor, original_active,
                   origin_point, result, start_vars, calc_calls,
                   origin_set_calls, host_failed>>

\* origin_point = self.calculate_origin_point(obj, use_bottom=...)
Calculate ==
    /\ pc = "for"
    /\ idx <= Len(selected_objects)
    /\ objects[selected_objects[idx]].type = "MESH"
    /\ origin_point' = calculate_origin_point(objects[selected_objects[idx]], use_bottom)
    /\ calc_calls' = Append(calc_calls, [obj |-> selected_objects[idx],
                                         bottom |-> use_bottom,
                                         point |-> origin_point'])
    /\ pc' = "if_not_point"
    /\ UNCHANGED <<scene_vars, use_bottom, original_cursor, original_active, idx,
                   result, start_vars, origin_set_calls, host_failed>>

\* if not origin_point: continue
SkipNoPoint ==
    /\ pc = "if_not_point"
    /\ IsFalsy(origin_point)
    /\ idx' = idx + 1
    /\ pc' = "for"
    /\ UNCHANGED <<scene_vars, use_bottom, original_cursor, original_active,
                   origin_point, result, start_vars, calc_calls,
                   origin_set_calls, host_failed>>

\* Variant: the cursor is not moved to the computed point.
SetCursorSkipped ==
    /\ pc = "if_not_point"
    /\ ~IsFalsy(origin_point)
    /\ pc' = "set_active"
    /\ UNCHANGED <<scene_vars, local_vars, result, start_vars, calc_calls,
                   origin_set_calls, host_failed>>

\* context.scene.cursor.location = origin_point
SetCursor ==
    /\ pc = "if_not_point"
    /\ ~IsFalsy(origin_point)
    /\ cursor' = origin_point[1]
    /\ pc' = "set_active"
    /\ UNCHANGED <<objects, selected_objects, active, local_vars, result,
                   start_vars, calc_calls, origin_set_calls, host_failed>>

\* context.view_layer.objects.active = obj
SetActive ==
    /\ pc = "set_active"
    /\ active' = selected_objects[idx]
    /\ pc' = "origin_set"
    /\ UNCHANGED <<objects, selected_objects, cursor, local_vars, result,
                   start_vars, calc_calls, origin_set_calls, host_failed>>

\* bpy.ops.object.origin_set(type='ORIGIN_CURSOR') returns normally
OriginSet ==
    /\ pc = "origin_set"
    /\ objects' = origin_set(objects, selected_objects, cursor)
    /\ origin_set_calls' = Append(origin_set_calls,
                                  [obj |-> selected_objects[idx],
                                   cursor |-> cursor,
                                   active |-> active,
                                   point |-> origin_point])
    /\ idx' = idx + 1
    /\ pc' = "for"
    /\ UNCHANGED <<selected_objects, cursor, active, use_bottom, original_cursor,
                   original_active, origin_point, result, start_vars,
                   calc_calls, host_failed>>

\* Variant: the call wrapped in try/except with `continue' in the handler.
OriginSetRaisesCaught ==
    /\ pc = "origin_set"
    /\ host_failed' = TRUE
    /\ idx' = idx + 1
    /\ pc' = "for"
    /\ UNCHANGED <<scene_vars, use_bottom, original_cursor, original_active,
                   origin_point, result, start_vars, calc_calls, origin_set_calls>>

\* bpy.ops.object.origin_set raises: execute has no try, so the exception
\* leaves execute at once, past the restoring lines and the return.
OriginSetRaises ==
    /\ pc = "origin_set"
    /\ host_failed' = TRUE
    /\ result' = "RuntimeError"
    /\ pc' = "idle"
    /\ UNCHANGED <<scene_vars, local_vars, start_vars, calc_calls, origin_set_calls>>

\* Variant: original_cursor taken without .copy(), so that it aliases the
\* live cursor vector and assigning it back changes nothing.
RestoreAliased ==
    /\ pc = "for"
    /\ idx > Len(selected_objects)
    /\ active' = original_active
    /\ pc' = "return"
    /\ UNCHANGED <<objects, selected_objects, cursor, local_vars, result,
                   start_vars, calc_calls, origin_set_calls, host_failed>>

\* after the loop: the cursor and the active object are put back
Restore ==
    /\ pc = "for"
    /\ idx > Len(selected_objects)
    /\ cursor' = original_cursor
    /\ active' = original_active
    /\ pc' = "return"
    /\ UNCHANGED <<objects, selected_objects, local_vars, result, start_vars,
                   calc_calls, origin_set_calls, host_failed>>

\* return {'FINISHED'}
Return ==
    /\ pc = "return"
    /\ result' = "FINISHED"
    /\ pc' = "idle"
    /\ UNCHANGED <<scene_vars, local_vars, start_vars, calc_calls,
                   origin_set_calls, host_failed>>

\* The steps of a running invocation, with a host primitive that succeeds.
Step ==
    \/ SkipNonMesh
    \/ Calculate
    \/ SkipNoPoint
    \/ SetCursor
    \/ SetActive
    \/ OriginSet
    \/ Restore
    \/ Return

Next ==
    \/ ExecuteBottom
    \/ ExecuteTop
    \/ Step

Spec == Init /\ [][Next]_vars

\* The operator runs to completion once the host has called it: the host
\* is single-threaded and execute has no suspension point.  The fair
\* behaviours follow one invocation, the last the model allows, from the
\* default ambient state (cursor at the world origin, no active object),
\* which no branch of execute reads.
InitFair ==
    \E sel \in Selections :
        Start(sel, <<0, 0, 0>>, NoObject, MaxInvocations - 1)

FairSpec == InitFair /\ [][Next]_vars /\ WF_vars(Step)

\* The same program with a host primitive that may raise.
NextHostFail ==
    \/ Next
    \/ OriginSetRaises

SpecHostFail == Init /\ [][NextHostFail]_vars

(***************************************************************************)
(* The calculator on its own: one mesh object drawn from a bounded input   *)
(* space (vertex lists, world matrices, translations, with or without a    *)
(* modifier that leaves no vertex), on which calculate_origin_point is     *)
(* called once in either mode.                                             *)
(***************************************************************************)
CalcVertices == { <<x, y, z>> : x \in {-2, 0, 2}, y \in {0, 2}, z \in {0, 2} }
CalcMatrices == { Identity, RotX90, RotZ90, MirrorZ, Scale2 }
CalcLocs == { <<0, 0, 0>>, <<4, 6, 0>>, <<-2, 0, -6>> }
CalcVertexLists == UNION { [1..n -> CalcVertices] : n \in 0..MaxVerts }

InitCalc ==
    /\ \E vs \in CalcVertexLists, m \in CalcMatrices, l \in CalcLocs,
          md \in {"NONE", "MASK"} :
            objects = << Obj("MESH", vs, m, l, md) >>
    /\ selected_objects = <<1>>
    /\ cursor = <<0, 0, 0>>
    /\ active = NoObject
    /\ pc = "input"
    /\ use_bottom = TRUE
    /\ original_cursor = cursor
    /\ original_active = active
    /\ idx = 1
    /\ origin_point = None
    /\ result = "NONE"
    /\ invocations = 0
    /\ pre_objects = objects
    /\ pre_cursor = cursor
    /\ pre_active = active
    /\ calc_calls = <<>>
    /\ prev_calls = <<>>
    /\ origin_set_calls = <<>>
    /\ host_failed = FALSE

CallCalculator(bottom) ==
    /\ pc = "input"
    /\ use_bottom' = bottom
    /\ origin_point' = calculate_origin_point(objects[1], bottom)
    /\ pc' = "calculated"
    /\ UNCHANGED <<scene_vars, original_cursor, original_active, idx, result,
                   start_vars, calc_calls, origin_set_calls, host_failed>>

CalculateBottom == CallCalculator(TRUE)
CalculateTop == CallCalculator(FALSE)

NextCalc ==
    \/ CalculateBottom
    \/ CalculateTop

SpecCalc == InitCalc /\ [][NextCalc]_vars

(***************************************************************************)
(* Sanity of the encoding: every world-space vertex coordinate is a whole  *)
(* unit, so no midpoint is rounded by \div.                                *)
(***************************************************************************)
WorldOnWholeUnits ==
    \A o \in DOMAIN objects :
        \A i \in DOMAIN WorldVerts(objects[o]) :
            \A k \in 1..3 : WorldVerts(objects[o])[i][k] % 2 = 0

(***************************************************************************)
(* Vocabulary of the claims.                                               *)
(***************************************************************************)
Finished == pc = "idle" /\ result = "FINISHED"

IsMesh(o) == pre_objects[o].type = "MESH"
HasVertex(o) == Len(evaluated_get(pre_objects[o])) >= 1
Eligible(o) == IsMesh(o) /\ HasVertex(o)

Selected == Range(selected_objects)
RelocatedObjs == { origin_set_calls[i].obj : i \in DOMAIN origin_set_calls }
OriginMoved(o) == Origin(objects[o]) # Origin(pre_objects[o])

\* extrema of a finite set of integers, stated without a scan
SetMin(S) == CHOOSE m \in S : \A n \in S : m <= n
SetMax(S) == CHOOSE m \in S : \A n \in S : m >= n
WorldCoords(ob, k) ==
    { matrix_world(ob, evaluated_get(ob)[i])[k] : i \in DOMAIN evaluated_get(ob) }

(***************************************************************************)
(* C1: after a batch invocation that returned (empty selection, objects    *)
(* skipped, or every object relocated), the cursor location and the active *)
(* object are what they were immediately before the invocation.            *)
(***************************************************************************)
C1_AmbientRestored ==
    Finished => cursor = pre_cursor /\ active = pre_active

\* an invocation that relocated one object and skipped another, started
\* with an active object outside the selection and a cursor elsewhere
C1_Witness ==
    /\ Finished
    /\ Len(origin_set_calls) >= 1
    /\ Len(calc_calls) > Len(origin_set_calls)
    /\ pre_active # NoObject
    /\ pre_active \notin Selected
    /\ \E i \in DOMAIN origin_set_calls :
          /\ origin_set_calls[i].cursor # pre_cursor
          /\ origin_set_calls[i].active # pre_active

(***************************************************************************)
(* C2: after a batch invocation in mode M, every selected mesh with at     *)
(* least one vertex has its origin at the point the calculator yields for  *)
(* that object in mode M, and no other object's origin has changed.        *)
(***************************************************************************)
C2_EachAtItsOwnPoint ==
    Finished =>
        \A o \in DOMAIN objects :
            IF o \in Selected /\ Eligible(o)
            THEN Some(Origin(objects[o])) = calculate_origin_point(pre_objects[o], use_bottom)
            ELSE ~OriginMoved(o)

(***************************************************************************)
(* C3: for an object with at least one vertex, calculate_origin_point      *)
(* returns (x, y, z) with x and y the means of the world-space minimum and *)
(* maximum on those axes, z the world-space minimum (use_bottom) or        *)
(* maximum (otherwise); local bounds [0,1]^3 translated by (2, 3, 0) give  *)
(* (2.5, 3.5, 0.0) in BOTTOM mode.                                         *)
(***************************************************************************)
C3_BoundingBoxPoint ==
    (pc = "calculated" /\ Len(evaluated_get(objects[1])) >= 1) =>
        LET ob == objects[1]
            xs == WorldCoords(ob, 1)
            ys == WorldCoords(ob, 2)
            zs == WorldCoords(ob, 3)
        IN  /\ origin_point # None
            /\ 2 * origin_point[1][1] = SetMin(xs) + SetMax(xs)
            /\ 2 * origin_point[1][2] = SetMin(ys) + SetMax(ys)
            /\ origin_point[1][3] = IF use_bottom THEN SetMin(zs) ELSE SetMax(zs)
            /\ ( /\ ob.mat = Identity
                 /\ ob.loc = <<4, 6, 0>>
                 /\ \A k \in 1..3 :
                       { ob.verts[i][k] : i \in DOMAIN ob.verts } = {0, 2}
                 /\ use_bottom )
               => origin_point = Some(<<5, 7, 0>>)

\* the scenario of the claim, and a transformed object in TOP mode whose
\* world-space maximum z comes from its local minimum z
C3_Witness ==
    /\ pc = "calculated"
    /\ \/ /\ use_bottom
          /\ objects[1].mat = Identity
          /\ objects[1].loc = <<4, 6, 0>>
          /\ objects[1].verts = << <<0, 0, 0>>, <<2, 2, 2>> >>
          /\ objects[1].modifier = "NONE"
          /\ origin_point = Some(<<5, 7, 0>>)
       \/ /\ ~use_bottom
          /\ objects[1].mat = MirrorZ
          /\ objects[1].loc = <<-2, 0, -6>>
          /\ objects[1].verts = << <<-2, 0, 0>>, <<2, 2, 2>> >>
          /\ objects[1].modifier = "NONE"
          /\ origin_point = Some(<<-2, 1, -6>>)

(***************************************************************************)
(* C4: for a mesh whose evaluated geometry has no vertex the calculator    *)
(* returns None, and a batch invocation whose selection contains that      *)
(* object leaves its origin unmodified, whatever else is selected.         *)
(***************************************************************************)
C4_ZeroVertexUntouched ==
    /\ \A i \in DOMAIN calc_calls :
          ~HasVertex(calc_calls[i].obj) => calc_calls[i].point = None
    /\ Finished =>
          \A o \in Selected : (IsMesh(o) /\ ~HasVertex(o)) => ~OriginMoved(o)

(***************************************************************************)
(* C5: an object of the selection that is not a mesh is never passed to    *)
(* the calculator and is never mutated: its origin after the invocation is *)
(* its origin before.                                                      *)
(***************************************************************************)
C5_NonMeshUntouched ==
    /\ \A i \in DOMAIN calc_calls : IsMesh(calc_calls[i].obj)
    /\ Finished =>
          \A o \in Selected : ~IsMesh(o) => objects[o] = pre_objects[o]

(***************************************************************************)
(* C6: for every selection the batch completes and reports FINISHED; an    *)
(* ineligible object does not abort it, and every eligible object of the   *)
(* selection has been processed by then.                                   *)
(***************************************************************************)
C6_AlwaysFinishes ==
    (pc # "idle") ~>
        (Finished /\ RelocatedObjs = { o \in Selected : Eligible(o) })

\* a finished batch in which an eligible object came after a non-mesh
\* object and after a mesh without vertices
C6_Witness ==
    /\ Finished
    /\ \E i, j, k \in DOMAIN selected_objects :
          /\ i < k /\ j < k
          /\ ~IsMesh(selected_objects[i])
          /\ IsMesh(selected_objects[j]) /\ ~HasVertex(selected_objects[j])
          /\ selected_objects[k] \in RelocatedObjs

(***************************************************************************)
(* C7: invoking the batch twice in the same mode on an object that changed *)
(* only by the relocation of its origin computes the same point both       *)
(* times; the point does not depend on where the origin was before: it is  *)
(* the point of the object as it was before any relocation.                *)
(***************************************************************************)
C7_Idempotent ==
    /\ \A i \in DOMAIN calc_calls : \A j \in DOMAIN prev_calls :
          ( /\ calc_calls[i].obj = prev_calls[j].obj
            /\ calc_calls[i].bottom = prev_calls[j].bottom )
          => calc_calls[i].point = prev_calls[j].point
    /\ \A i \in DOMAIN calc_calls :
          calc_calls[i].point =
              calculate_origin_point(Scene[calc_calls[i].obj], calc_calls[i].bottom)

\* BOTTOM twice: the second invocation computes a point for an object whose
\* origin the first invocation has moved
C7_Witness ==
    /\ invocations = 2
    /\ \E i \in DOMAIN calc_calls : \E j \in DOMAIN prev_calls :
          /\ calc_calls[i].obj = prev_calls[j].obj
          /\ calc_calls[i].bottom /\ prev_calls[j].bottom
          /\ calc_calls[i].point # None
          /\ Origin(pre_objects[calc_calls[i].obj]) # Origin(Scene[calc_calls[i].obj])
          /\ pre_objects[calc_calls[i].obj].verts # Scene[calc_calls[i].obj].verts

(***************************************************************************)
(* C8: when the host's relocation primitive fails, the failure leaves the  *)
(* procedure: the invocation ends there and does not report FINISHED.      *)
(***************************************************************************)
C8_HostFailurePropagates ==
    host_failed => (pc = "idle" /\ result = "RuntimeError")

\* the primitive failed on a later object, after a relocation that succeeded
C8_Witness ==
    /\ host_failed
    /\ Len(origin_set_calls) >= 1
    /\ idx <= Len(selected_objects)

(***************************************************************************)
(* C9: the objects are processed in selection order, one at a time; at     *)
(* every call of the host relocation the cursor is at the point just       *)
(* computed for the current object and the current object is active; the   *)
(* relocation is called once per eligible object and never for a skipped   *)
(* one.                                                                    *)
(***************************************************************************)
C9_OrderedRelocation ==
    LET done == SubSeq(selected_objects, 1, idx - 1)
        seen == IF pc \in {"if_not_point", "set_active", "origin_set"}
                THEN SubSeq(selected_objects, 1, idx)
                ELSE done
    IN  /\ [i \in DOMAIN origin_set_calls |-> origin_set_calls[i].obj]
              = SelectSeq(done, Eligible)
        /\ [i \in DOMAIN calc_calls |-> calc_calls[i].obj]
              = SelectSeq(seen, IsMesh)
        /\ \A i \in DOMAIN origin_set_calls :
              LET c == origin_set_calls[i]
              IN  /\ c.point # None
                  /\ c.cursor = c.point[1]
                  /\ c.active = c.obj
                  /\ \E j \in DOMAIN calc_calls :
                        /\ calc_calls[j].obj = c.obj
                        /\ calc_calls[j].point = c.point
        /\ pc = "origin_set" =>
              /\ origin_point # None
              /\ cursor = origin_point[1]
              /\ active = selected_objects[idx]

\* two relocations with a skipped object between them
C9_Witness ==
    /\ Len(origin_set_calls) = 2
    /\ \E k \in DOMAIN selected_objects :
          /\ k < idx
          /\ selected_objects[k] \notin RelocatedObjs
          /\ \E i, j \in DOMAIN selected_objects :
                /\ i < k /\ k < j
                /\ selected_objects[i] = origin_set_calls[1].obj
                /\ selected_objects[j] = origin_set_calls[2].obj

(***************************************************************************)
(* C10: a mesh is skipped after the calculator's call if and only if the   *)
(* calculator returned None; every computed point is applied, the point    *)
(* (0, 0, 0) included.                                                     *)
(***************************************************************************)
C10_SkipIffNone ==
    (pc \in {"for", "return", "idle"}) =>
        RelocatedObjs =
            { calc_calls[i].obj : i \in { j \in DOMAIN calc_calls :
                                            calc_calls[j].point # None } }

\* the point (0, 0, 0) was computed and the relocation was called with it
C10_Witness ==
    \E i \in DOMAIN origin_set_calls :
        /\ origin_set_calls[i].point = Some(<<0, 0, 0>>)
        /\ origin_set_calls[i].cursor = <<0, 0, 0>>
        /\ Origin(pre_objects[origin_set_calls[i].obj]) # <<0, 0, 0>>
        /\ Origin(objects[origin_set_calls[i].obj]) = <<0, 0, 0>>

====
